---------------------------- MODULE Spec2Model ----------------------------
(***************************************************************************)
(* The timestamp module of srml/timestamp/src/lib.rs: the storage items    *)
(* Now, BlockPeriod and DidUpdate, the dispatchable set, the hook          *)
(* on_finalise, and the inherent functions create_inherent and             *)
(* check_inherent.  Moment is an unsigned integer of MomentBits bits (u64  *)
(* in the runtime configured at lib.rs:306-309, InherentType is u64 as     *)
(* well), and `+` on it either wraps or panics, as the build's             *)
(* overflow-checks setting decides.                                        *)
(***************************************************************************)
EXTENDS Integers, Sequences, FiniteSets, TLC

\* ------------------------------------------------------------- bounds

\* Width of Moment and of InherentType in the model (64 in the runtime).
MomentBits == 7

\* How far around each interesting value the submitted values are drawn.
Band == 1

\* BlockPeriod is configured at genesis from 0..MaxPeriod.
MaxPeriod == 3

\* Arity of the tuple configured as T::OnTimestampSet.
NumListeners == 2

\* The per-block bookkeeping counters of the model saturate here.
MaxCount == 2

\* --------------------------------------------------------- the Moment type

Modulus == 2 ^ MomentBits

MaxMoment == Modulus - 1

MAX_TIMESTAMP_DRIFT == 60

\* a + b leaves the type's range
add_overflows(a, b) == a + b > MaxMoment

\* a + b in a build without overflow checks
wrapping_add(a, b) == (a + b) % Modulus

\* As::sa : u64 -> Moment, a cast between integers of the same width
sa(x) == x % Modulus

\* As::as_ : Moment -> u64, a cast between integers of the same width
as_(x) == x % Modulus

\* Zero::is_zero
is_zero(x) == x = 0

\* cmp::max
max(a, b) == IF a >= b THEN a ELSE b

\* Option<T>
None == << >>

Some(v) == << v >>

\* ------------------------------------------------------------- inputs

Near(c) == { t \in 0 .. MaxMoment : t >= c - Band /\ t <= c + Band }

\* The values submitted to set and supplied as inherent data: around zero,
\* around the drift constant, around the largest reading whose drift bound
\* still fits the type, and around the largest value of the type.
Moments ==
    Near(0) \cup Near(MAX_TIMESTAMP_DRIFT)
            \cup Near(MaxMoment - MAX_TIMESTAMP_DRIFT) \cup Near(MaxMoment)

Periods == 0 .. MaxPeriod

\* system::RawOrigin
Origins == { "ROOT", "SIGNED", "INHERENT" }

\* InherentData's entry under INHERENT_IDENTIFIER: absent, or a u64
InherentDatas == { None } \cup { Some(d) : d \in Moments }

\* -------------------------------------------------------------- state

VARIABLES
    Now,              \* storage: current time for the current block
    BlockPeriod,      \* storage: the minimum period between blocks
    DidUpdate,        \* storage: TRUE iff the DidUpdate key exists (only true is ever put)
    overflow_checks,  \* the build: TRUE iff `+` panics on overflow, FALSE iff it wraps
    called,           \* the operation the last step ran
    arg_origin,       \* its origin argument (set)
    arg_now,          \* its Moment argument (set, check_inherent's call), as an Option
    arg_data,         \* its inherent data (create_inherent, check_inherent), as an Option
    result,           \* how it ended: "Ok", an Err's name, or the panic's message
    ret,              \* the value it returned or carried in its error, as an Option
    notified,         \* the on_timestamp_set calls it made, in order
    old,              \* the storage and the bookkeeping as they were before it ran
    updates,          \* successful set calls since the last on_finalise (saturating)
    attempts,         \* set calls since the last on_finalise (saturating)
    ever_set          \* TRUE iff some set call has succeeded since genesis

vars ==
    << Now, BlockPeriod, DidUpdate, overflow_checks, called, arg_origin, arg_now,
       arg_data, result, ret, notified, old, updates, attempts, ever_set >>

storage == << Now, BlockPeriod, DidUpdate >>

snapshot ==
    [ Now |-> Now, DidUpdate |-> DidUpdate, BlockPeriod |-> BlockPeriod,
      updates |-> updates, attempts |-> attempts, ever_set |-> ever_set ]

saturating_inc(n) == IF n < MaxCount THEN n + 1 ELSE n

\* ------------------------------------------------------- results of calls

Ok == "Ok"

BadOrigin == "bad origin: expected to be an inherent origin"

OnlyOncePanic == "Timestamp must be updated only once in the block"

PeriodPanic ==
    "Timestamp must increment by at least <BlockPeriod> between sequential blocks"

FinalisePanic == "Timestamp must be updated once in the block"

OverflowPanic == "attempt to add with overflow"

\* --------------------------------------------------------------- storage

\* Module::get and the getter now()
get == Now

\* the getter block_period()
block_period == BlockPeriod

\* DidUpdate::exists()
DidUpdate_exists == DidUpdate

\* system::ensure_inherent
ensure_inherent(origin) == origin = "INHERENT"

\* ------------------------------------------------------------------ set

\* <T::OnTimestampSet as OnTimestampSet<_>>::on_timestamp_set(moment) for a
\* tuple of NumListeners listeners: each is called once, in the tuple's
\* order, and reads the storage as it is at the time of the call.
on_timestamp_set(moment, seen_now, seen_did) ==
    [ i \in 1 .. NumListeners |->
        [ listener |-> i, moment |-> moment,
          seen_Now |-> seen_now, seen_DidUpdate |-> seen_did ] ]

\* set without the assertion on DidUpdate
set_outcome_no_once(origin, now) ==
    IF ~ ensure_inherent(origin) THEN BadOrigin
    ELSE IF is_zero(get) THEN Ok
    ELSE IF overflow_checks /\ add_overflows(get, block_period) THEN OverflowPanic
    ELSE IF now >= wrapping_add(get, block_period) THEN Ok
    ELSE PeriodPanic

\* set with the two assertions in the other order
set_outcome_period_first(origin, now) ==
    IF ~ ensure_inherent(origin) THEN BadOrigin
    ELSE IF ~ is_zero(get) /\ overflow_checks /\ add_overflows(get, block_period)
       THEN OverflowPanic
    ELSE IF ~ is_zero(get) /\ ~ (now >= wrapping_add(get, block_period))
       THEN PeriodPanic
    ELSE IF DidUpdate_exists THEN OnlyOncePanic
    ELSE Ok

\* set with a strict comparison against the minimum
set_outcome_strict(origin, now) ==
    IF ~ ensure_inherent(origin) THEN BadOrigin
    ELSE IF DidUpdate_exists THEN OnlyOncePanic
    ELSE IF is_zero(get) THEN Ok
    ELSE IF overflow_checks /\ add_overflows(get, block_period) THEN OverflowPanic
    ELSE IF now > wrapping_add(get, block_period) THEN Ok
    ELSE PeriodPanic

\* set without ensure_inherent
set_outcome_any_origin(origin, now) ==
    IF DidUpdate_exists THEN OnlyOncePanic
    ELSE IF is_zero(get) THEN Ok
    ELSE IF overflow_checks /\ add_overflows(get, block_period) THEN OverflowPanic
    ELSE IF now >= wrapping_add(get, block_period) THEN Ok
    ELSE PeriodPanic

\* The checks of set, in the order the code makes them.
set_outcome(origin, now) ==
    IF ~ ensure_inherent(origin) THEN BadOrigin
    ELSE IF DidUpdate_exists THEN OnlyOncePanic
    ELSE IF is_zero(get) THEN Ok
    ELSE IF overflow_checks /\ add_overflows(get, block_period) THEN OverflowPanic
    ELSE IF now >= wrapping_add(get, block_period) THEN Ok
    ELSE PeriodPanic

\* set that writes Now and DidUpdate before the assertion on the period
set_write_before_assert(origin, now) ==
    /\ called' = "set"
    /\ arg_origin' = origin
    /\ arg_now' = Some(now)
    /\ arg_data' = None
    /\ old' = snapshot
    /\ result' = set_outcome(origin, now)
    /\ ret' = None
    /\ attempts' = saturating_inc(attempts)
    /\ IF set_outcome(origin, now) = Ok
          THEN /\ Now' = now
               /\ DidUpdate' = TRUE
               /\ notified' = on_timestamp_set(now, now, TRUE)
               /\ updates' = saturating_inc(updates)
               /\ ever_set' = TRUE
          ELSE /\ notified' = << >>
               /\ IF set_outcome(origin, now) = PeriodPanic
                     THEN Now' = now /\ DidUpdate' = TRUE
                     ELSE UNCHANGED << Now, DidUpdate >>
               /\ UNCHANGED << updates, ever_set >>
    /\ UNCHANGED << BlockPeriod, overflow_checks >>

\* set that notifies the listeners before it writes Now and DidUpdate
set_notify_before_write(origin, now) ==
    /\ called' = "set"
    /\ arg_origin' = origin
    /\ arg_now' = Some(now)
    /\ arg_data' = None
    /\ old' = snapshot
    /\ result' = set_outcome(origin, now)
    /\ ret' = None
    /\ attempts' = saturating_inc(attempts)
    /\ IF set_outcome(origin, now) = Ok
          THEN /\ notified' = on_timestamp_set(now, Now, DidUpdate)
               /\ Now' = now
               /\ DidUpdate' = TRUE
               /\ updates' = saturating_inc(updates)
               /\ ever_set' = TRUE
          ELSE /\ notified' = << >>
               /\ UNCHANGED << Now, DidUpdate, updates, ever_set >>
    /\ UNCHANGED << BlockPeriod, overflow_checks >>

\* set: the checks, then the two writes, then the listeners
set(origin, now) ==
    /\ called' = "set"
    /\ arg_origin' = origin
    /\ arg_now' = Some(now)
    /\ arg_data' = None
    /\ old' = snapshot
    /\ result' = set_outcome(origin, now)
    /\ ret' = None
    /\ attempts' = saturating_inc(attempts)
    /\ IF set_outcome(origin, now) = Ok
          THEN /\ Now' = now
               /\ DidUpdate' = TRUE
               /\ notified' = on_timestamp_set(now, now, TRUE)
               /\ updates' = saturating_inc(updates)
               /\ ever_set' = TRUE
          ELSE /\ notified' = << >>
               /\ UNCHANGED << Now, DidUpdate, updates, ever_set >>
    /\ UNCHANGED << BlockPeriod, overflow_checks >>

\* ---------------------------------------------------------- on_finalise

\* on_finalise without its assertion
on_finalise_outcome_no_assert == Ok

\* assert!(DidUpdate::take(), ..): take() returns the stored value, or false
\* when the key is absent.
on_finalise_outcome == IF DidUpdate THEN Ok ELSE FinalisePanic

\* on_finalise that reads DidUpdate with get() and leaves the key
on_finalise_no_take ==
    /\ called' = "on_finalise"
    /\ arg_origin' = "ROOT"
    /\ arg_now' = None
    /\ arg_data' = None
    /\ old' = snapshot
    /\ result' = on_finalise_outcome
    /\ ret' = None
    /\ notified' = << >>
    /\ updates' = 0
    /\ attempts' = 0
    /\ UNCHANGED << Now, BlockPeriod, DidUpdate, overflow_checks, ever_set >>

\* DidUpdate::take() removes the key.
on_finalise ==
    /\ called' = "on_finalise"
    /\ arg_origin' = "ROOT"
    /\ arg_now' = None
    /\ arg_data' = None
    /\ old' = snapshot
    /\ DidUpdate' = FALSE
    /\ result' = on_finalise_outcome
    /\ ret' = None
    /\ notified' = << >>
    /\ updates' = 0
    /\ attempts' = 0
    /\ UNCHANGED << Now, BlockPeriod, overflow_checks, ever_set >>

\* ------------------------------------------------------------ inherents

ExpectPanic == "Gets and decodes timestamp inherent data"

NotProvided == "Other: Timestamp inherent data is not provided."

TooFarInFuture == "Other: Timestamp too far in future to accept"

ValidAtTimestamp == "ValidAtTimestamp"

\* IsFatalError for InherentError: ValidAtTimestamp(_) is not fatal, Other(_) is
is_fatal_error(e) == IF e = ValidAtTimestamp THEN FALSE ELSE TRUE

\* A result of check_inherent that is Err(e) with e.is_fatal_error()
RejectedFatal(res) ==
    res \in { NotProvided, TooFarInFuture, ValidAtTimestamp } /\ is_fatal_error(res)

\* extract_inherent_data: the u64 under INHERENT_IDENTIFIER, or an Err
extract_inherent_data(data) ==
    IF data = None THEN [ is_ok |-> FALSE, value |-> 0, err |-> NotProvided ]
    ELSE [ is_ok |-> TRUE, value |-> data[1], err |-> Ok ]

\* create_inherent that leaves the block period out of the minimum
create_inherent_outcome_no_period(data) ==
    IF ~ extract_inherent_data(data).is_ok
       THEN [ result |-> ExpectPanic, ret |-> None ]
    ELSE [ result |-> Ok,
           ret |-> Some(max(sa(extract_inherent_data(data).value), get)) ]

\* create_inherent: Some(Call::set(next_time)), or a panic
create_inherent_outcome(data) ==
    IF ~ extract_inherent_data(data).is_ok
       THEN [ result |-> ExpectPanic, ret |-> None ]
    ELSE IF overflow_checks /\ add_overflows(get, block_period)
       THEN [ result |-> OverflowPanic, ret |-> None ]
    ELSE [ result |-> Ok,
           ret |-> Some(max(sa(extract_inherent_data(data).value),
                            wrapping_add(get, block_period))) ]

create_inherent(data) ==
    /\ called' = "create_inherent"
    /\ arg_origin' = "ROOT"
    /\ arg_now' = None
    /\ arg_data' = data
    /\ old' = snapshot
    /\ result' = create_inherent_outcome(data).result
    /\ ret' = create_inherent_outcome(data).ret
    /\ notified' = << >>
    /\ UNCHANGED << storage, overflow_checks, updates, attempts, ever_set >>

\* check_inherent on Call::set(t) (the only call of the module): Ok, an
\* InherentError, or a panic.  The minimum is computed before the drift
\* bound, and both before the comparisons.
check_inherent_outcome(t, data) ==
    IF ~ extract_inherent_data(data).is_ok
       THEN [ result |-> extract_inherent_data(data).err, ret |-> None ]
    ELSE IF overflow_checks /\ add_overflows(get, block_period)
       THEN [ result |-> OverflowPanic, ret |-> None ]
    ELSE IF overflow_checks
            /\ add_overflows(extract_inherent_data(data).value, MAX_TIMESTAMP_DRIFT)
       THEN [ result |-> OverflowPanic, ret |-> None ]
    ELSE IF as_(t) > wrapping_add(extract_inherent_data(data).value, MAX_TIMESTAMP_DRIFT)
       THEN [ result |-> TooFarInFuture, ret |-> None ]
    ELSE IF as_(t) < as_(wrapping_add(get, block_period))
       THEN [ result |-> ValidAtTimestamp,
              ret |-> Some(as_(wrapping_add(get, block_period))) ]
    ELSE [ result |-> Ok, ret |-> None ]

check_inherent(t, data) ==
    /\ called' = "check_inherent"
    /\ arg_origin' = "ROOT"
    /\ arg_now' = Some(t)
    /\ arg_data' = data
    /\ old' = snapshot
    /\ result' = check_inherent_outcome(t, data).result
    /\ ret' = check_inherent_outcome(t, data).ret
    /\ notified' = << >>
    /\ UNCHANGED << storage, overflow_checks, updates, attempts, ever_set >>

\* The values create_inherent can put into Call::set in the current state.
proposals ==
    { create_inherent_outcome(d).ret[1] :
        d \in { e \in InherentDatas : create_inherent_outcome(e).result = Ok } }

\* --------------------------------------------------------- specification

\* Genesis: Now is built as 0, BlockPeriod comes from the configuration,
\* DidUpdate does not exist.
Init ==
    /\ Now = sa(0)
    /\ BlockPeriod \in Periods
    /\ DidUpdate = FALSE
    /\ overflow_checks \in BOOLEAN
    /\ called = "genesis"
    /\ arg_origin = "ROOT"
    /\ arg_now = None
    /\ arg_data = None
    /\ result = Ok
    /\ ret = None
    /\ notified = << >>
    /\ updates = 0
    /\ attempts = 0
    /\ ever_set = FALSE
    /\ old = [ Now |-> 0, DidUpdate |-> FALSE, BlockPeriod |-> BlockPeriod,
               updates |-> 0, attempts |-> 0, ever_set |-> FALSE ]

Next ==
    \/ \E origin \in Origins, now \in Moments : set(origin, now)
    \/ on_finalise

Spec == Init /\ [][Next]_vars

\* The inherent functions, called at the start of a block: after genesis,
\* or after a block that set the time to any value and was finalised.
InitInherent ==
    /\ Now \in Moments
    /\ BlockPeriod \in Periods
    /\ DidUpdate = FALSE
    /\ overflow_checks \in BOOLEAN
    /\ ever_set = ~ is_zero(Now)
    /\ called = IF ever_set THEN "on_finalise" ELSE "genesis"
    /\ arg_origin = "ROOT"
    /\ arg_now = None
    /\ arg_data = None
    /\ result = Ok
    /\ ret = None
    /\ notified = << >>
    /\ updates = 0
    /\ attempts = 0
    /\ old = [ Now |-> Now, DidUpdate |-> ever_set, BlockPeriod |-> BlockPeriod,
               updates |-> IF ever_set THEN 1 ELSE 0,
               attempts |-> IF ever_set THEN 1 ELSE 0, ever_set |-> ever_set ]

\* No call of the block has run yet.
at_block_start == called \in { "genesis", "on_finalise" }

\* The producer calls create_inherent once at the start of the block; a
\* validator calls check_inherent once, on any value or on a proposed one.
\* Neither writes storage, so further calls would return the same results.
NextInherent ==
    \/ \E data \in InherentDatas : at_block_start /\ create_inherent(data)
    \/ \E t \in Moments \cup proposals, data \in InherentDatas :
          called # "check_inherent" /\ check_inherent(t, data)

SpecInherent == InitInherent /\ [][NextInherent]_vars


\* The whole module from genesis: the block's calls, and the inherent
\* functions called on the state a block starts from.
NextModule ==
    \/ \E origin \in Origins, now \in Moments : set(origin, now)
    \/ on_finalise
    \/ \E data \in InherentDatas : at_block_start /\ create_inherent(data)
    \/ \E t \in Moments \cup proposals, data \in InherentDatas :
          at_block_start /\ check_inherent(t, data)

SpecModule == Init /\ [][NextModule]_vars

\* An honest producer from genesis: every block is create_inherent on some
\* reading, then set with the inherent origin and the value it returned,
\* then on_finalise.
NextHonest ==
    \/ \E d \in Moments : at_block_start /\ create_inherent(Some(d))
    \/ /\ called = "create_inherent"
       /\ result = Ok
       /\ set("INHERENT", ret[1])
    \/ /\ called = "set"
       /\ result = Ok
       /\ on_finalise

SpecHonest == Init /\ [][NextHonest]_vars

\* ---------------------------------------------------------------- claims

\* C1: the value read() returns after a step of set or on_finalise is
\* greater than or equal to the value it returned before the step.
C1_NonDecreasing == get >= old.Now

\* C2: a block never holds two successful set calls; an on_finalise that
\* succeeds follows exactly one successful set call since the previous
\* on_finalise (or genesis); a block with none does not pass on_finalise.
C2_ExactlyOneUpdatePerBlock ==
    /\ updates <= 1
    /\ (called = "on_finalise" /\ result = Ok) => old.updates = 1
    /\ (called = "on_finalise" /\ old.updates = 0) => result = FinalisePanic

\* C2's case: a block with a failed and a successful set call is finalised.
C2_Witness ==
    /\ called = "on_finalise"
    /\ result = Ok
    /\ old.updates = 1
    /\ old.attempts = 2

\* C3: a set call with inherent origin made after a successful set call of
\* the same block fails with the only-once panic, whatever value it submits.
C3_SecondApplyFails ==
    (called = "set" /\ arg_origin = "INHERENT" /\ old.updates >= 1)
        => (result = OnlyOncePanic /\ Now = old.Now /\ DidUpdate = old.DidUpdate)

\* C3's case: the second value satisfies the minimum period relative to the first.
C3_Witness ==
    /\ called = "set"
    /\ arg_origin = "INHERENT"
    /\ old.updates = 1
    /\ old.Now # 0
    /\ arg_now[1] >= old.Now + BlockPeriod
    /\ result = OnlyOncePanic

\* C4: on_finalise fails whenever no set call has succeeded in the current
\* block, that is whenever DidUpdate does not exist when it runs.
C4_FinaliseWithoutUpdateFails ==
    (called = "on_finalise" /\ (old.updates = 0 \/ ~ old.DidUpdate))
        => result = FinalisePanic

\* C4's case: the only set calls of the block failed.
C4_Witness ==
    /\ called = "on_finalise"
    /\ old.attempts >= 1
    /\ old.updates = 0
    /\ result = FinalisePanic

\* C5: with Now # 0 and DidUpdate absent, a set call with inherent origin
\* that submits less than Now + BlockPeriod fails with the period panic.
C5_MinimumPeriodEnforced ==
    (/\ called = "set"
     /\ arg_origin = "INHERENT"
     /\ ~ old.DidUpdate
     /\ old.Now # 0
     /\ arg_now[1] < old.Now + BlockPeriod)
        => result = PeriodPanic

\* C6: a set call with inherent origin and DidUpdate absent succeeds when
\* Now = 0 or the submitted value is at least Now + BlockPeriod; right after
\* it read() returns the submitted value and DidUpdate exists.
C6_ApplySucceeds ==
    (/\ called = "set"
     /\ arg_origin = "INHERENT"
     /\ ~ old.DidUpdate
     /\ (old.Now = 0 \/ arg_now[1] >= old.Now + BlockPeriod))
        => (result = Ok /\ get = arg_now[1] /\ DidUpdate_exists)

\* C6's case: the submitted value is exactly Now + BlockPeriod.
C6_Witness ==
    /\ called = "set"
    /\ arg_origin = "INHERENT"
    /\ ~ old.DidUpdate
    /\ old.Now # 0
    /\ BlockPeriod > 0
    /\ arg_now[1] = old.Now + BlockPeriod
    /\ result = Ok

\* C7: every successful set call after the first successful one submits at
\* least the time before it plus BlockPeriod.
C7_ExemptionOnlyOnce ==
    (called = "set" /\ result = Ok /\ old.ever_set)
        => arg_now[1] >= old.Now + BlockPeriod

\* C8: a set call with an origin other than the inherent one fails and
\* changes neither Now nor DidUpdate, whatever the state and the value.
C8_NonInherentFails ==
    (called = "set" /\ arg_origin # "INHERENT")
        => (/\ result = BadOrigin
            /\ Now = old.Now
            /\ DidUpdate = old.DidUpdate
            /\ updates = old.updates
            /\ notified = << >>)

\* C8's case: the call would have succeeded with the inherent origin.
C8_Witness ==
    /\ called = "set"
    /\ arg_origin = "SIGNED"
    /\ ~ old.DidUpdate
    /\ old.Now # 0
    /\ arg_now[1] >= old.Now + BlockPeriod
    /\ result = BadOrigin

\* C9: create_inherent on a reading returns the larger of the reading and
\* Now + BlockPeriod.
C9_ProposeIsMax ==
    (called = "create_inherent" /\ arg_data # None)
        => (result = Ok /\ ret = Some(max(arg_data[1], Now + BlockPeriod)))

\* C10: check_inherent, with any reading, never answers ValidAtTimestamp to
\* a value create_inherent returns in the same state for some reading.
C10_ProposalNeverDeferred ==
    (called = "check_inherent" /\ arg_now[1] \in proposals)
        => result # ValidAtTimestamp

\* C10's case: the producer's reading lagged, the proposal is the minimum
\* itself, and the validator accepts it.
C10_Witness ==
    /\ called = "check_inherent"
    /\ arg_now[1] \in proposals
    /\ BlockPeriod > 0
    /\ arg_now[1] = Now + BlockPeriod
    /\ arg_now[1] \notin { d[1] : d \in InherentDatas \ { None } }
    /\ result = Ok

\* C11: check_inherent on a value below Now + BlockPeriod answers
\* ValidAtTimestamp(Now + BlockPeriod), whatever the reading.
C11_BelowMinimumDeferred ==
    (called = "check_inherent" /\ arg_data # None
        /\ arg_now[1] < Now + BlockPeriod)
        => (result = ValidAtTimestamp /\ ret = Some(Now + BlockPeriod))

\* C12: check_inherent on a value above reading + 60 answers the fatal
\* error Other, whatever the relation of the value to Now + BlockPeriod.
C12_TooFarRejectedFatal ==
    (called = "check_inherent" /\ arg_data # None
        /\ arg_now[1] > arg_data[1] + MAX_TIMESTAMP_DRIFT)
        => (result = TooFarInFuture /\ is_fatal_error(result))

\* C13: check_inherent on a value from Now + BlockPeriod to reading + 60,
\* both ends included, answers Ok.
C13_InRangeAccepted ==
    (called = "check_inherent" /\ arg_data # None
        /\ Now + BlockPeriod <= arg_now[1]
        /\ arg_now[1] <= arg_data[1] + MAX_TIMESTAMP_DRIFT)
        => result = Ok

\* C14: a set call that fails, for whichever reason, leaves Now, DidUpdate
\* and BlockPeriod as they were and notifies no listener.
C14_FailedApplyChangesNothing ==
    (called = "set" /\ result # Ok)
        => (/\ Now = old.Now
            /\ DidUpdate = old.DidUpdate
            /\ BlockPeriod = old.BlockPeriod
            /\ notified = << >>)

\* C14's case: the last of the three checks fails, on a value that differs
\* from the stored time.
C14_Witness ==
    /\ called = "set"
    /\ result = PeriodPanic
    /\ arg_now[1] # old.Now
    /\ ~ old.DidUpdate

\* C16: a successful set call notifies every listener exactly once, in the
\* tuple's order, with the submitted value, after Now and DidUpdate were
\* written; a failed set call and on_finalise notify none.
C16_ListenerNotification ==
    /\ (called = "set" /\ result = Ok)
          => /\ Len(notified) = NumListeners
             /\ \A i \in 1 .. NumListeners :
                   /\ notified[i].listener = i
                   /\ notified[i].moment = arg_now[1]
                   /\ notified[i].seen_Now = arg_now[1]
                   /\ notified[i].seen_DidUpdate
    /\ (called = "on_finalise" \/ (called = "set" /\ result # Ok))
          => notified = << >>

\* C16's case: a successful set call that changes the time, with at least
\* two listeners.
C16_Witness ==
    /\ called = "set"
    /\ result = Ok
    /\ arg_now[1] # old.Now
    /\ Len(notified) >= 2
    /\ notified[2].listener = 2

\* C15: on_finalise, passing or failing, leaves DidUpdate absent and Now and
\* BlockPeriod unchanged; create_inherent and check_inherent change no
\* storage; no call changes BlockPeriod; Now changes only in a successful
\* set call.
C15_Frame ==
    /\ called = "on_finalise"
          => (~ DidUpdate_exists /\ Now = old.Now)
    /\ called \in { "create_inherent", "check_inherent" }
          => (Now = old.Now /\ DidUpdate = old.DidUpdate
              /\ updates = old.updates /\ ever_set = old.ever_set)
    /\ BlockPeriod = old.BlockPeriod
    /\ Now # old.Now => (called = "set" /\ result = Ok)
    /\ DidUpdate # old.DidUpdate
          => ((called = "set" /\ result = Ok) \/ called = "on_finalise")

\* C15's case: an on_finalise that passes, in a block that set a time.
C15_Witness ==
    /\ called = "on_finalise"
    /\ result = Ok
    /\ old.DidUpdate
    /\ ~ DidUpdate_exists
    /\ Now = old.Now
    /\ Now # 0

\* C17: in the run of an honest producer neither set nor on_finalise fails,
\* and every set call raises Now by at least BlockPeriod.
C17_HonestProgress ==
    /\ called = "set" => (result = Ok /\ Now >= old.Now + BlockPeriod)
    /\ called = "on_finalise" => result = Ok

\* C20: with Now + BlockPeriod computed in the width of Moment, no set call
\* made with Now # 0 succeeds for a value smaller than Now.
C20_NoBackwardsByOverflow ==
    (called = "set" /\ result = Ok /\ old.Now # 0) => arg_now[1] >= old.Now

\* C18: when check_inherent answers Ok, the period precondition of set holds
\* for the value and set with the inherent origin and DidUpdate absent
\* succeeds; and with Now # 0, check_inherent answers ValidAtTimestamp, or a
\* fatal error on a value below Now + BlockPeriod, exactly when set fails
\* its assertion on the period.
C18_ValidationAsStrictAsSet ==
    (called = "check_inherent" /\ arg_data # None /\ ~ DidUpdate_exists)
        => /\ result = Ok
                => (/\ (Now = 0 \/ arg_now[1] >= Now + BlockPeriod)
                    /\ set_outcome("INHERENT", arg_now[1]) = Ok)
           /\ Now # 0
                => ((\/ result = ValidAtTimestamp
                     \/ (RejectedFatal(result) /\ arg_now[1] < Now + BlockPeriod))
                    <=> set_outcome("INHERENT", arg_now[1]) = PeriodPanic)

\* C19: for the same state and the same value, two validators whose
\* check_inherent does not return a fatal error get the same result: both
\* Ok, or both ValidAtTimestamp with the same time.
C19_ValidatorsAgree ==
    (called = "check_inherent" /\ arg_data # None)
        => \A r2 \in InherentDatas \ { None } :
              (/\ ~ RejectedFatal(result)
               /\ ~ RejectedFatal(check_inherent_outcome(arg_now[1], r2).result))
                 => (/\ check_inherent_outcome(arg_now[1], r2).result = result
                     /\ check_inherent_outcome(arg_now[1], r2).ret = ret
                     /\ result \in { Ok, ValidAtTimestamp })

=============================================================================
